---- MODULE Spec2Model ----
(***************************************************************************)
(* Ramacropy: RamanSpectra and IRSpectra (src/Ramacropy/Ramacropy.py).     *)
(*                                                                         *)
(* One spectrum object is alive in a behaviour; cls says which class it    *)
(* is.  Every public method that changes the object is one action, and     *)
(* so is every plot of a summary (the plots change nothing).  The          *)
(* variables call and res are history variables: the last call and what    *)
(* it did (normal return, printed warning, raised exception, ...).         *)
(*                                                                         *)
(* Numbers.  Samples are numpy doubles.  The model keeps the values that   *)
(* are exact in integer arithmetic plus the three non-finite doubles.      *)
(* Absorbance samples are integers.  Transmission samples are integers in  *)
(* units of 10^-TDigits percent, so that 100 * 10^-A is an integer for     *)
(* every absorbance the model converts.  An operation whose result is not  *)
(* exactly representable is not explored (guards named Representable).    *)
(* Sequences are 1-based: index i here is numpy index i-1.                 *)
(***************************************************************************)
EXTENDS Integers, Sequences, FiniteSets, TLC

VARIABLES cls, RamanShift, Wavenumbers, SpectralData, RawData, TimeStamp,
          status, integral, peak, call, res, conv

vars == <<cls, RamanShift, Wavenumbers, SpectralData, RawData, TimeStamp,
          status, integral, peak, call, res, conv>>

(***************************************************************************)
(* Bounds                                                                  *)
(***************************************************************************)
\* largest magnitude of a finite sample the model explores
MaxVal == 4
\* decimal digits of a percent-transmission value kept after the point
TDigits == 2

(***************************************************************************)
(* Doubles: finite integers and the non-finite values numpy produces       *)
(***************************************************************************)
PosInf == 2000000000
NegInf == 0 - PosInf
NaN == 2000000001

IsFinite(v) == v # NaN /\ v # PosInf /\ v # NegInf

Abs(v) == IF v < 0 THEN 0 - v ELSE v

Sign(v) == IF v = PosInf THEN 1 ELSE IF v = NegInf THEN -1
           ELSE IF v > 0 THEN 1 ELSE IF v < 0 THEN -1 ELSE 0

FNeg(a) == IF a = NaN THEN NaN
           ELSE IF a = PosInf THEN NegInf
           ELSE IF a = NegInf THEN PosInf
           ELSE 0 - a

FAdd(a, b) == IF a = NaN \/ b = NaN THEN NaN
              ELSE IF IsFinite(a) /\ IsFinite(b) THEN a + b
              ELSE IF IsFinite(a) THEN b
              ELSE IF IsFinite(b) THEN a
              ELSE IF a = b THEN a ELSE NaN

FSub(a, b) == FAdd(a, FNeg(b))

FMul(a, b) == IF a = NaN \/ b = NaN THEN NaN
              ELSE IF IsFinite(a) /\ IsFinite(b) THEN a * b
              ELSE IF Sign(a) * Sign(b) = 0 THEN NaN
              ELSE IF Sign(a) * Sign(b) > 0 THEN PosInf ELSE NegInf

\* a / b as numpy divides doubles (x/0 is +-inf, 0/0 is nan)
FDiv(a, b) == IF a = NaN \/ b = NaN THEN NaN
              ELSE IF IsFinite(a) /\ IsFinite(b)
                   THEN IF b = 0
                        THEN (IF a = 0 THEN NaN ELSE IF a > 0 THEN PosInf ELSE NegInf)
                        ELSE Sign(a) * Sign(b) * (Abs(a) \div Abs(b))
              ELSE IF IsFinite(a) THEN 0
              ELSE IF IsFinite(b)
                   THEN (IF Sign(a) * (IF b < 0 THEN -1 ELSE 1) > 0 THEN PosInf ELSE NegInf)
              ELSE NaN

\* the quotient a / b is an integer or a non-finite double
DivExact(a, b) == (IsFinite(a) /\ IsFinite(b) /\ b # 0) => Abs(a) % Abs(b) = 0

RECURSIVE Pow10(_)
Pow10(k) == IF k <= 0 THEN 1 ELSE 10 * Pow10(k - 1)

IsPow10(t) == \E k \in 0..(2 + 2 * TDigits) : t = Pow10(k)

RECURSIVE Log10(_)
Log10(t) == IF t < 10 THEN 0 ELSE 1 + Log10(t \div 10)

Capped(v) == IsFinite(v) => Abs(v) <= MaxVal

SeqCapped(s) == \A i \in 1..Len(s) : Capped(s[i])

(***************************************************************************)
(* numpy helpers used by the methods                                       *)
(***************************************************************************)
RECURSIVE SeqMin(_)
SeqMin(s) == IF Len(s) = 1 THEN s[1]
             ELSE LET m == SeqMin(Tail(s)) IN IF s[1] <= m THEN s[1] ELSE m

RECURSIVE SeqMax(_)
SeqMax(s) == IF Len(s) = 1 THEN s[1]
             ELSE LET m == SeqMax(Tail(s)) IN IF s[1] >= m THEN s[1] ELSE m

\* faulty variant of ArgminScan: keeps the last smallest element
RECURSIVE ArgminScan_last(_, _, _)
ArgminScan_last(d, i, best) ==
    IF i > Len(d) THEN best
    ELSE ArgminScan_last(d, i + 1, IF d[i] <= d[best] THEN i ELSE best)

\* ndarray.argmin(): scan left to right, keep the first smallest element
RECURSIVE ArgminScan(_, _, _)
ArgminScan(d, i, best) ==
    IF i > Len(d) THEN best
    ELSE ArgminScan(d, i + 1, IF d[i] < d[best] THEN i ELSE best)

argmin(d) == ArgminScan(d, 2, 1)

\* np.abs(axis - value).argmin()
NearestIdx(axis, value) == argmin([i \in 1..Len(axis) |-> Abs(axis[i] - value)])

\* sorted([start, end])
sorted(start, end) == IF start <= end THEN <<start, end>> ELSE <<end, start>>

\* axis.min() <= value <= axis.max()
InBounds(axis, value) == SeqMin(axis) <= value /\ value <= SeqMax(axis)

(***************************************************************************)
(* Ramacropy.Utils (imported at Ramacropy.py:8, not part of the sources):  *)
(* modelled from the specification and the methods' docstrings             *)
(***************************************************************************)
\* tangent of an angle in degrees, for the angles the model passes
Tan(angle) == CASE angle = 0 -> 0 [] angle = 45 -> 1 [] angle = -45 -> -1

\* bline: blend of the straight line tan(angle)*x + offset (coarsness 0)
\* and the spectrum itself (coarsness 1)
bline(axis, col, coarsness, angle, offset) ==
    [i \in 1..Len(col) |->
        FAdd(FMul(1 - coarsness, Tan(angle) * axis[i] + offset),
             FMul(coarsness, col[i]))]

ColSub(col, base) == [i \in 1..Len(col) |-> FSub(col[i], base[i])]

\* (a + b) / 2
Mid(a, b) == LET t == FAdd(a, b) IN IF IsFinite(t) THEN t \div 2 ELSE t

RECURSIVE Trapz(_, _, _)
Trapz(col, lo, hi) ==
    IF lo >= hi THEN 0
    ELSE FAdd(Mid(col[lo], col[lo + 1]), Trapz(col, lo + 1, hi))

\* integrate_area: trapezoidal rule, unit spacing, over the closed index
\* interval [min(start_pos, end_pos), max(start_pos, end_pos)]
integrate_area(col, start_pos, end_pos) ==
    LET lo == IF start_pos <= end_pos THEN start_pos ELSE end_pos
        hi == IF start_pos <= end_pos THEN end_pos ELSE start_pos
    IN Trapz(col, lo, hi)

\* every trapezoid of the column has an integer area
TrapzExact(col) ==
    \A i \in 1..(Len(col) - 1) :
        IsFinite(FAdd(col[i], col[i + 1])) => FAdd(col[i], col[i + 1]) % 2 = 0

\* normalise_peak: every sample divided by the sample at peak_idx
normalise_peak_col(col, peak_idx) ==
    [i \in 1..Len(col) |-> FDiv(col[i], col[peak_idx])]

ColDivExact(col, d) == \A i \in 1..Len(col) : DivExact(col[i], d)

\* normalise_area: every sample divided by the trapezoidal integral of the
\* column over the index range
normalise_area(col, start_pos, end_pos) ==
    [i \in 1..Len(col) |-> FDiv(col[i], integrate_area(col, start_pos, end_pos))]

\* savgol_filter(col, window_length = 5, polyorder = 2): every sample is
\* replaced by the value at its place of the least-squares parabola through
\* the five samples around it (through the first, or the last, five samples
\* for the two samples at each end).  SavgolRows is 35 times the matrix that
\* maps five samples to the values of their parabola.
window_length == 5

polyorder == 2

SavgolRows == << <<31, 9, -3, -5, 3>>, <<9, 13, 12, 6, -5>>, <<-3, 12, 17, 12, -3>>,
                 <<-5, 6, 12, 13, 9>>, <<3, -5, -3, 9, 31>> >>

SavgolNum(col, i) ==
    LET n == Len(col)
        half == window_length \div 2
        first == IF i <= half THEN 1
                 ELSE IF i > n - half THEN n - window_length + 1
                 ELSE i - half
        row == SavgolRows[i - first + 1]
    IN row[1] * col[first] + row[2] * col[first + 1] + row[3] * col[first + 2]
       + row[4] * col[first + 3] + row[5] * col[first + 4]

savgol_filter(col) == [i \in 1..Len(col) |-> SavgolNum(col, i) \div 35]

\* the window fits in the column, the samples are finite and every
\* smoothed sample is an integer
SavgolExact(col) ==
    /\ Len(col) >= window_length
    /\ \A i \in 1..Len(col) : IsFinite(col[i])
    /\ \A i \in 1..Len(col) : SavgolNum(col, i) % 35 = 0

(***************************************************************************)
(* Inputs                                                                  *)
(***************************************************************************)
\* abscissae the loaders deliver: strictly monotonic, either direction
Axes == {<<0, 2, 4>>, <<4, 2, 0>>}

\* (SpectralData, RawData) of a loaded RamanSpectra, column by column;
\* a .pkl restores a RawData that may differ from SpectralData
RamanLoads == { [data |-> <<<<0, 4, 2>>>>, raw |-> <<<<0, 4, 2>>>>],
                [data |-> <<<<0, 2, 0>>, <<2, 4, 2>>>>,
                 raw |-> <<<<2, 4, 2>>, <<4, 6, 4>>>>] }

\* a longer abscissa and a two-column load on it, for the five-sample
\* window of spike_removal: the first column has a spike pattern that the
\* smoothing removes, the second is a straight line that it keeps
LongAxes == {<<0, 2, 4, 6, 8>>}

LongLoads == { [data |-> <<<<-2, 4, 0, -4, 2>>, <<-4, -2, 0, 2, 4>>>>,
                raw |-> <<<<-2, 4, 0, -4, 2>>, <<-4, -2, 0, 2, 4>>>>] }

\* percent transmission p as a sample
Pct(p) == p * Pow10(TDigits)

\* (status, SpectralData, RawData) of a loaded IRSpectra
IRLoads == { [status |-> "%T", data |-> <<Pct(100), Pct(1), Pct(100)>>,
              raw |-> <<Pct(100), Pct(1), Pct(100)>>],
             [status |-> "%T", data |-> <<Pct(100), Pct(-1), Pct(0)>>,
              raw |-> <<Pct(100), Pct(-1), Pct(0)>>],
             [status |-> "Abs", data |-> <<2, 4, 2>>, raw |-> <<4, 6, 4>>] }

\* (coarsness, angle, offset) keyword arguments of baseline
BlineArgs == { <<0, 0, 0>>, <<0, 0, 2>>, <<0, 45, 0>>, <<1, 0, 0>>,
               <<-1, 0, 2>>, <<2, 0, 0>>, <<0, 91, 0>>, <<0, -91, 2>> }

\* (angle, coarsness, offset) the interactive baseline picker may return
BlinePicks == { <<0, 0, 0>>, <<0, 0, 2>> }

\* positions given as arguments: below, inside (1 is halfway between two
\* samples, 4 is an end of the abscissa) and above the abscissa
QueryVals == {-2, 1, 4, 6}

\* (start, end) keyword arguments of integrate
IntegrateArgs == { <<1, 4>>, <<4, 1>>, <<1, 1>>, <<-2, 4>>, <<4, -2>>,
                   <<1, 6>>, <<6, 1>> }

\* wavenumber axes of the IR loads (Shimadzu exports run high to low)
IRAxes == {<<4, 2, 0>>}

\* bounds the interactive region picker may return
BoundPicks == { <<4, 1>>, <<2, 6>> }

\* positions the interactive position pickers may return
PosPicks == {1, 6}

NoPick == <<>>

(***************************************************************************)
(* State                                                                   *)
(***************************************************************************)
\* an attribute that has not been assigned yet (hasattr is false)
Unset == <<>>

NoCall == [op |-> "load", interactive |-> FALSE, args |-> <<>>, picked |-> NoPick]

\* what a call did: outcome is "ok" (normal return), "warned" (printed a
\* message and returned), "ValueError" (raised), "returned ValueError"
\* (returned the exception object); picker: the interactive picker ran;
\* blines: number of bline evaluations; start_pos, end_pos: resolved indices
Result(outcome, picker, blines, start_pos, end_pos) ==
    [outcome |-> outcome, picker |-> picker, blines |-> blines,
     start_pos |-> start_pos, end_pos |-> end_pos]

NoConv == [len |-> 0, data |-> <<>>, status |-> ""]

Conversions == {"t_to_A", "A_to_t"}

\* history of consecutive successful unit conversions: the intensity and
\* status before the first of them, and how many there were (1 or 2)
ConvStep(converted) ==
    IF ~converted THEN NoConv
    ELSE IF conv.len = 1 THEN [conv EXCEPT !.len = 2]
    ELSE [len |-> 1, data |-> SpectralData, status |-> status]

InitRaman ==
    /\ cls = "Raman"
    /\ RamanShift \in Axes
    /\ \E l \in RamanLoads :
          /\ SpectralData = l.data
          /\ RawData = l.raw
          /\ TimeStamp = [i \in 1..Len(l.data) |-> i - 1]
    /\ Wavenumbers = <<>>
    /\ status = ""
    /\ peak = Unset

InitRamanLong ==
    /\ cls = "Raman"
    /\ RamanShift \in LongAxes
    /\ \E l \in LongLoads :
          /\ SpectralData = l.data
          /\ RawData = l.raw
          /\ TimeStamp = [i \in 1..Len(l.data) |-> i - 1]
    /\ Wavenumbers = <<>>
    /\ status = ""
    /\ peak = Unset

InitIR ==
    /\ cls = "IR"
    /\ Wavenumbers \in IRAxes
    /\ \E l \in IRLoads :
          /\ SpectralData = l.data
          /\ RawData = l.raw
          /\ status = l.status
    /\ RamanShift = <<>>
    /\ TimeStamp = <<>>
    /\ peak = Unset

\* no summary yet, no call made
InitFresh ==
    /\ integral = Unset
    /\ call = NoCall
    /\ res = Result("ok", FALSE, 0, 0, 0)
    /\ conv = NoConv

Init == (InitRaman \/ InitIR) /\ InitFresh

(***************************************************************************)
(* IRSpectra.t_to_A / IRSpectra.A_to_t                                     *)
(***************************************************************************)
\* faulty variant of T2A: -np.log10(t), the division by 100 forgotten
T2A_noPercent(t) == IF t = NaN \/ t = NegInf THEN NaN
                    ELSE IF t = PosInf THEN NegInf
                    ELSE IF t < 0 THEN NaN
                    ELSE IF t = 0 THEN PosInf
                    ELSE 0 - (Log10(t) - TDigits)

\* -np.log10(t / 100) of one sample
T2A(t) == IF t = NaN \/ t = NegInf THEN NaN
          ELSE IF t = PosInf THEN NegInf
          ELSE IF t < 0 THEN NaN
          ELSE IF t = 0 THEN PosInf
          ELSE 0 - (Log10(t) - TDigits - 2)

\* 100 * np.power(10, -a) of one sample
A2T(a) == IF a = NaN THEN NaN
          ELSE IF a = PosInf THEN 0
          ELSE IF a = NegInf THEN PosInf
          ELSE 100 * Pow10(TDigits - a)

\* faulty variant of TransToAbs: the first sample is lost
TransToAbs_dropsFirst(col) == [i \in 1..(Len(col) - 1) |-> T2A(col[i + 1])]

\* -np.log10(self.SpectralData / 100), sample by sample
TransToAbs(col) == [i \in 1..Len(col) |-> T2A(col[i])]

T2ARepresentable(col) ==
    \A i \in 1..Len(col) : (IsFinite(col[i]) /\ col[i] > 0) => IsPow10(col[i])

A2TRepresentable(col) ==
    \A i \in 1..Len(col) :
        IsFinite(col[i]) => (col[i] >= 0 - TDigits /\ col[i] <= TDigits)

\* faulty variant of t_to_A: the exception is returned, not raised
t_to_A_returnsError ==
    /\ cls = "IR"
    /\ call' = [op |-> "t_to_A", interactive |-> FALSE, args |-> <<>>, picked |-> NoPick]
    /\ IF status = "%T"
       THEN /\ T2ARepresentable(SpectralData)
            /\ SpectralData' = [i \in 1..Len(SpectralData) |-> T2A(SpectralData[i])]
            /\ status' = "Abs"
            /\ res' = Result("ok", FALSE, 0, 0, 0)
            /\ conv' = ConvStep(TRUE)
       ELSE /\ res' = Result("returned ValueError", FALSE, 0, 0, 0)
            /\ conv' = ConvStep(FALSE)
            /\ UNCHANGED <<SpectralData, status>>
    /\ UNCHANGED <<cls, RamanShift, Wavenumbers, RawData, TimeStamp, integral, peak>>

t_to_A ==
    /\ cls = "IR"
    /\ call' = [op |-> "t_to_A", interactive |-> FALSE, args |-> <<>>, picked |-> NoPick]
    /\ IF status = "%T"
       THEN /\ T2ARepresentable(SpectralData)
            /\ SpectralData' = TransToAbs(SpectralData)
            /\ status' = "Abs"
            /\ res' = Result("ok", FALSE, 0, 0, 0)
            /\ conv' = ConvStep(TRUE)
       ELSE /\ res' = Result("ValueError", FALSE, 0, 0, 0)
            /\ conv' = ConvStep(FALSE)
            /\ UNCHANGED <<SpectralData, status>>
    /\ UNCHANGED <<cls, RamanShift, Wavenumbers, RawData, TimeStamp, integral, peak>>

\* faulty variant of A_to_t: the status is not updated
A_to_t_keepsStatus ==
    /\ cls = "IR"
    /\ call' = [op |-> "A_to_t", interactive |-> FALSE, args |-> <<>>, picked |-> NoPick]
    /\ IF status = "Abs"
       THEN /\ A2TRepresentable(SpectralData)
            /\ SpectralData' = [i \in 1..Len(SpectralData) |-> A2T(SpectralData[i])]
            /\ status' = status
            /\ res' = Result("ok", FALSE, 0, 0, 0)
            /\ conv' = ConvStep(TRUE)
       ELSE /\ res' = Result("ValueError", FALSE, 0, 0, 0)
            /\ conv' = ConvStep(FALSE)
            /\ UNCHANGED <<SpectralData, status>>
    /\ UNCHANGED <<cls, RamanShift, Wavenumbers, RawData, TimeStamp, integral, peak>>

A_to_t ==
    /\ cls = "IR"
    /\ call' = [op |-> "A_to_t", interactive |-> FALSE, args |-> <<>>, picked |-> NoPick]
    /\ IF status = "Abs"
       THEN /\ A2TRepresentable(SpectralData)
            /\ SpectralData' = [i \in 1..Len(SpectralData) |-> A2T(SpectralData[i])]
            /\ status' = "%T"
            /\ res' = Result("ok", FALSE, 0, 0, 0)
            /\ conv' = ConvStep(TRUE)
       ELSE /\ res' = Result("ValueError", FALSE, 0, 0, 0)
            /\ conv' = ConvStep(FALSE)
            /\ UNCHANGED <<SpectralData, status>>
    /\ UNCHANGED <<cls, RamanShift, Wavenumbers, RawData, TimeStamp, integral, peak>>

(***************************************************************************)
(* baseline                                                                *)
(***************************************************************************)
\* faulty variant of BlineOutOfBounds: the lower limit of coarsness is not checked
BlineOutOfBounds_noLower(coarsness, angle) ==
    coarsness > 1 \/ Abs(angle) > 90

\* coarsness < 0.0 or coarsness > 1.0 or abs(angle) > 90.0
BlineOutOfBounds(coarsness, angle) ==
    coarsness < 0 \/ coarsness > 1 \/ Abs(angle) > 90

\* faulty variant of AllZero: the comparison of offset is inverted
AllZero_offsetInverted(coarsness, angle, offset) ==
    coarsness = 0 /\ angle = 0 /\ offset # 0

\* coarsness == 0.0 and angle == 0.0 and offset == 0.0
AllZero(coarsness, angle, offset) == coarsness = 0 /\ angle = 0 /\ offset = 0

\* faulty variant of RawAfterInPlace: RawData is the array SpectralData is
RawAfterInPlace_shared(raw, written) == written

\* RawData after SpectralData was written in place: RawData is an array of
\* its own (np.copy at load), so the write does not reach it
RawAfterInPlace(raw, written) == raw

\* faulty variant of BaselineLoop: the baseline of the first column is
\* subtracted from every column
BaselineLoop_firstColumn(data, count, axis, coarsness, angle, offset) ==
    [c \in 1..Len(data) |->
        ColSub(data[c], bline(axis, data[1], coarsness, angle, offset))]

\* for count in range(shape[1]): SpectralData[:, count] -= bline(...)
RECURSIVE BaselineLoop(_, _, _, _, _, _)
BaselineLoop(data, count, axis, coarsness, angle, offset) ==
    IF count > Len(data) THEN data
    ELSE BaselineLoop(
            [data EXCEPT ![count] =
                ColSub(data[count], bline(axis, data[count], coarsness, angle, offset))],
            count + 1, axis, coarsness, angle, offset)

MatCapped(data) == \A c \in 1..Len(data) : SeqCapped(data[c])

RamanBaseline(coarsness, angle, offset, interactive, picked) ==
    /\ cls = "Raman"
    /\ call' = [op |-> "baseline", interactive |-> interactive,
                args |-> <<coarsness, angle, offset>>, picked |-> picked]
    /\ conv' = ConvStep(FALSE)
    /\ IF BlineOutOfBounds(coarsness, angle)
       THEN /\ res' = Result("ValueError", FALSE, 0, 0, 0)
            /\ UNCHANGED <<SpectralData, RawData>>
       ELSE IF ~interactive /\ AllZero(coarsness, angle, offset)
       THEN /\ res' = Result("warned", FALSE, 0, 0, 0)
            /\ UNCHANGED <<SpectralData, RawData>>
       ELSE LET a == IF interactive THEN picked[1] ELSE angle
                c == IF interactive THEN picked[2] ELSE coarsness
                o == IF interactive THEN picked[3] ELSE offset
                new == BaselineLoop(SpectralData, 1, RamanShift, c, a, o)
            IN /\ MatCapped(new)
               /\ SpectralData' = new
               /\ RawData' = RawAfterInPlace(RawData, new)
               /\ res' = Result("ok", interactive, Len(SpectralData), 0, 0)
    /\ UNCHANGED <<cls, RamanShift, Wavenumbers, TimeStamp, status, integral, peak>>

IRBaseline(coarsness, angle, offset, interactive, picked) ==
    /\ cls = "IR"
    /\ call' = [op |-> "baseline", interactive |-> interactive,
                args |-> <<coarsness, angle, offset>>, picked |-> picked]
    /\ conv' = ConvStep(FALSE)
    /\ IF BlineOutOfBounds(coarsness, angle)
       THEN /\ res' = Result("ValueError", FALSE, 0, 0, 0)
            /\ UNCHANGED <<SpectralData, RawData>>
       ELSE IF status = "%T"
       THEN /\ res' = Result("returned ValueError", FALSE, 0, 0, 0)
            /\ UNCHANGED <<SpectralData, RawData>>
       ELSE IF ~interactive /\ AllZero(coarsness, angle, offset)
       THEN /\ res' = Result("ValueError", FALSE, 0, 0, 0)
            /\ UNCHANGED <<SpectralData, RawData>>
       ELSE LET a == IF interactive THEN picked[1] ELSE angle
                c == IF interactive THEN picked[2] ELSE coarsness
                o == IF interactive THEN picked[3] ELSE offset
                new == ColSub(SpectralData, bline(Wavenumbers, SpectralData, c, a, o))
            IN /\ SeqCapped(new)
               /\ SpectralData' = new
               /\ RawData' = RawAfterInPlace(RawData, new)
               /\ res' = Result("ok", interactive, 1, 0, 0)
    /\ UNCHANGED <<cls, RamanShift, Wavenumbers, TimeStamp, status, integral, peak>>

(***************************************************************************)
(* integrate                                                               *)
(***************************************************************************)
\* faulty variant of NotAbsorbance: the status is not tested
NotAbsorbance_unchecked(st) == FALSE

\* self.status != 'Abs'
NotAbsorbance(st) == st # "Abs"

\* faulty variant of IntegrateBounds: the arguments are not sorted
IntegrateBounds_unsorted(start, end, interactive, picked) ==
    IF interactive THEN picked ELSE <<start, end>>

\* bounds = picker result if interactive else sorted([start, end])
IntegrateBounds(start, end, interactive, picked) ==
    IF interactive THEN picked ELSE sorted(start, end)

\* faulty variant of BoundsOutside: the same bound is tested twice
BoundsOutside_sameBoundTwice(axis, bounds) ==
    ~(InBounds(axis, bounds[1]) /\ InBounds(axis, bounds[1]))

\* not (min <= bounds[0] <= max and min <= bounds[1] <= max)
BoundsOutside(axis, bounds) ==
    ~(InBounds(axis, bounds[1]) /\ InBounds(axis, bounds[2]))

\* start_pos, end_pos = argmin(|axis - bounds[0]|), argmin(|axis - bounds[1]|)
ResolveBounds(axis, bounds) ==
    <<NearestIdx(axis, bounds[1]), NearestIdx(axis, bounds[2])>>

\* faulty variant of FreshIntegral: an existing list is kept and appended to
FreshIntegral_keeps(old) == IF old = <<>> THEN <<>> ELSE old[1]

\* self.integral = []: the list starts empty whatever was stored before
FreshIntegral(old) == <<>>

\* for count in range(shape[1]): integral.append(integrate_area(column count))
RECURSIVE IntegralLoop(_, _, _, _, _)
IntegralLoop(acc, data, count, start_pos, end_pos) ==
    IF count > Len(data) THEN acc
    ELSE IntegralLoop(Append(acc, integrate_area(data[count], start_pos, end_pos)),
                      data, count + 1, start_pos, end_pos)

IntegralList(old, data, start_pos, end_pos) ==
    IntegralLoop(FreshIntegral(old), data, 1, start_pos, end_pos)

RamanIntegrate(start, end, interactive, picked) ==
    /\ cls = "Raman"
    /\ call' = [op |-> "integrate", interactive |-> interactive,
                args |-> <<start, end>>, picked |-> picked]
    /\ conv' = ConvStep(FALSE)
    /\ LET bounds == IntegrateBounds(start, end, interactive, picked)
       IN IF BoundsOutside(RamanShift, bounds)
          THEN /\ res' = Result("ValueError", interactive, 0, 0, 0)
               /\ UNCHANGED integral
          ELSE LET pos == ResolveBounds(RamanShift, bounds)
               IN /\ \A c \in 1..Len(SpectralData) : TrapzExact(SpectralData[c])
                  /\ integral' = <<IntegralList(integral, SpectralData, pos[1], pos[2])>>
                  /\ res' = Result("ok", interactive, 0, pos[1], pos[2])
    /\ UNCHANGED <<cls, RamanShift, Wavenumbers, SpectralData, RawData,
                   TimeStamp, status, peak>>

IRIntegrate(start, end, interactive, picked) ==
    /\ cls = "IR"
    /\ call' = [op |-> "integrate", interactive |-> interactive,
                args |-> <<start, end>>, picked |-> picked]
    /\ conv' = ConvStep(FALSE)
    /\ IF NotAbsorbance(status)
       THEN /\ res' = Result("ValueError", FALSE, 0, 0, 0)
            /\ UNCHANGED integral
       ELSE LET bounds == IntegrateBounds(start, end, interactive, picked)
            IN IF BoundsOutside(Wavenumbers, bounds)
               THEN /\ res' = Result("ValueError", interactive, 0, 0, 0)
                    /\ UNCHANGED integral
               ELSE LET pos == ResolveBounds(Wavenumbers, bounds)
                    IN /\ TrapzExact(SpectralData)
                       /\ integral' = <<integrate_area(SpectralData, pos[1], pos[2])>>
                       /\ res' = Result("ok", interactive, 0, pos[1], pos[2])
    /\ UNCHANGED <<cls, RamanShift, Wavenumbers, SpectralData, RawData,
                   TimeStamp, status, peak>>

(***************************************************************************)
(* IRSpectra.spec_pos_val / IRSpectra.normalise_peak                       *)
(***************************************************************************)
spec_pos_val(position, interactive, picked) ==
    /\ cls = "IR"
    /\ call' = [op |-> "spec_pos_val", interactive |-> interactive,
                args |-> <<position>>, picked |-> picked]
    /\ conv' = ConvStep(FALSE)
    /\ IF NotAbsorbance(status)
       THEN /\ res' = Result("ValueError", FALSE, 0, 0, 0)
            /\ UNCHANGED peak
       ELSE IF interactive
       THEN /\ peak' = <<picked>>
            /\ res' = Result("ok", TRUE, 0, 0, 0)
       ELSE IF InBounds(Wavenumbers, position)
       THEN LET peak_idx == NearestIdx(Wavenumbers, position)
            IN /\ peak' = <<SpectralData[peak_idx]>>
               /\ res' = Result("ok", FALSE, 0, peak_idx, peak_idx)
       ELSE /\ res' = Result("ValueError", FALSE, 0, 0, 0)
            /\ UNCHANGED peak
    /\ UNCHANGED <<cls, RamanShift, Wavenumbers, SpectralData, RawData,
                   TimeStamp, status, integral>>

normalise_peak(peak_wn, interactive, picked) ==
    /\ cls = "IR"
    /\ call' = [op |-> "normalise_peak", interactive |-> interactive,
                args |-> <<peak_wn>>, picked |-> picked]
    /\ conv' = ConvStep(FALSE)
    /\ IF status = "%T"
       THEN /\ res' = Result("ValueError", FALSE, 0, 0, 0)
            /\ UNCHANGED SpectralData
       ELSE IF ~interactive /\ (peak_wn = 0
                                \/ peak_wn <= SeqMin(Wavenumbers)
                                \/ peak_wn >= SeqMax(Wavenumbers))
       THEN /\ res' = Result("ValueError", FALSE, 0, 0, 0)
            /\ UNCHANGED SpectralData
       ELSE LET peak_idx == NearestIdx(Wavenumbers, IF interactive THEN picked ELSE peak_wn)
                new == normalise_peak_col(SpectralData, peak_idx)
            IN /\ ColDivExact(SpectralData, SpectralData[peak_idx])
               /\ SeqCapped(new)
               /\ SpectralData' = new
               /\ res' = Result("ok", interactive, 0, peak_idx, peak_idx)
    /\ UNCHANGED <<cls, RamanShift, Wavenumbers, RawData, TimeStamp, status,
                   integral, peak>>

(***************************************************************************)
(* RamanSpectra.normalise / RamanSpectra.spike_removal                     *)
(***************************************************************************)
Methods == {"area", "peak"}

\* the keyword arguments do not have the keys the method reads (KeyError)
NoKeys == <<>>

\* (min <= bounds[1] <= max) and (min <= bounds[1] <= max), 0-based
AreaBoundsAccepted(axis, bounds) ==
    InBounds(axis, bounds[2]) /\ InBounds(axis, bounds[2])

\* peak < RamanShift.min() or peak > RamanShift.max()
PeakOutside(axis, peak_pos) == peak_pos < SeqMin(axis) \/ peak_pos > SeqMax(axis)

\* for count in range(shape[1]): SpectralData[:, count] = normalise_area(...)
NormaliseAreaLoop(data, start_pos, end_pos) ==
    [count \in 1..Len(data) |-> normalise_area(data[count], start_pos, end_pos)]

\* for count in range(shape[1]): SpectralData[:, count] = normalise_peak(...)
NormalisePeakLoop(data, peak_idx) ==
    [count \in 1..Len(data) |-> normalise_peak_col(data[count], peak_idx)]

RamanNormalise(method, kw, interactive, picked) ==
    /\ cls = "Raman"
    /\ call' = [op |-> "normalise", interactive |-> interactive,
                args |-> <<method>> \o kw, picked |-> picked]
    /\ conv' = ConvStep(FALSE)
    /\ IF method \notin Methods
       THEN /\ res' = Result("ValueError", FALSE, 0, 0, 0)
            /\ UNCHANGED <<SpectralData, RawData>>
       ELSE IF ~interactive /\ kw = NoKeys
       THEN /\ res' = Result("warned", FALSE, 0, 0, 0)
            /\ UNCHANGED <<SpectralData, RawData>>
       ELSE IF method = "area"
       THEN LET bounds == IF interactive THEN picked ELSE sorted(kw[1], kw[2])
            IN IF ~interactive /\ ~AreaBoundsAccepted(RamanShift, bounds)
               THEN /\ res' = Result("ValueError", FALSE, 0, 0, 0)
                    /\ UNCHANGED <<SpectralData, RawData>>
               ELSE LET pos == ResolveBounds(RamanShift, bounds)
                        new == NormaliseAreaLoop(SpectralData, pos[1], pos[2])
                    IN /\ \A c \in 1..Len(SpectralData) :
                             /\ TrapzExact(SpectralData[c])
                             /\ ColDivExact(SpectralData[c],
                                    integrate_area(SpectralData[c], pos[1], pos[2]))
                       /\ MatCapped(new)
                       /\ SpectralData' = new
                       /\ RawData' = RawAfterInPlace(RawData, new)
                       /\ res' = Result("ok", interactive, 0, pos[1], pos[2])
       ELSE LET peak_pos == IF interactive THEN picked ELSE kw[1]
            IN IF ~interactive /\ PeakOutside(RamanShift, peak_pos)
               THEN /\ res' = Result("ValueError", FALSE, 0, 0, 0)
                    /\ UNCHANGED <<SpectralData, RawData>>
               ELSE LET peak_idx == NearestIdx(RamanShift, peak_pos)
                        new == NormalisePeakLoop(SpectralData, peak_idx)
                    IN /\ \A c \in 1..Len(SpectralData) :
                             ColDivExact(SpectralData[c], SpectralData[c][peak_idx])
                       /\ MatCapped(new)
                       /\ SpectralData' = new
                       /\ RawData' = RawAfterInPlace(RawData, new)
                       /\ res' = Result("ok", interactive, 0, peak_idx, peak_idx)
    /\ UNCHANGED <<cls, RamanShift, Wavenumbers, TimeStamp, status, integral, peak>>

\* for count in range(shape[1]): SpectralData[:, count] = savgol_filter(...)
SpikeLoop(data) == [count \in 1..Len(data) |-> savgol_filter(data[count])]

\* faulty variant of spike_removal: the integral is discarded with the
\* spectrum it was computed from
spike_removal_dropsIntegral ==
    /\ cls = "Raman"
    /\ call' = [op |-> "spike_removal", interactive |-> FALSE,
                args |-> <<>>, picked |-> NoPick]
    /\ conv' = ConvStep(FALSE)
    /\ \A c \in 1..Len(SpectralData) : SavgolExact(SpectralData[c])
    /\ LET new == SpikeLoop(SpectralData)
       IN /\ MatCapped(new)
          /\ SpectralData' = new
          /\ RawData' = RawAfterInPlace(RawData, new)
          /\ res' = Result("ok", FALSE, 0, 0, 0)
    /\ integral' = Unset
    /\ UNCHANGED <<cls, RamanShift, Wavenumbers, TimeStamp, status, peak>>

spike_removal ==
    /\ cls = "Raman"
    /\ call' = [op |-> "spike_removal", interactive |-> FALSE,
                args |-> <<>>, picked |-> NoPick]
    /\ conv' = ConvStep(FALSE)
    /\ \A c \in 1..Len(SpectralData) : SavgolExact(SpectralData[c])
    /\ LET new == SpikeLoop(SpectralData)
       IN /\ MatCapped(new)
          /\ SpectralData' = new
          /\ RawData' = RawAfterInPlace(RawData, new)
          /\ res' = Result("ok", FALSE, 0, 0, 0)
    /\ UNCHANGED <<cls, RamanShift, Wavenumbers, TimeStamp, status, integral, peak>>

(***************************************************************************)
(* plot_integral_kinetic / plot_integral_single / plot_values_single       *)
(*                                                                         *)
(* The plots read the object and the spectra in other_spectra and change   *)
(* neither.  Of another spectrum the methods read its number of columns,   *)
(* whether it has the attributes integral and peak, and its status.        *)
(***************************************************************************)
OtherSpectrum(cols, hasIntegral, hasPeak, st) ==
    [cols |-> cols, hasIntegral |-> hasIntegral, hasPeak |-> hasPeak, status |-> st]

\* other_spectra given to the plots of a RamanSpectra: none, or one spectrum
\* with one or two columns, integrated or not
RamanOthers ==
    {<<>>} \cup { <<OtherSpectrum(n, b, FALSE, "")>> : n \in {1, 2}, b \in BOOLEAN }

\* other_spectra given to plot_values_single: none, or one IRSpectra
IROthers ==
    {<<>>} \cup { <<OtherSpectrum(1, b, q, st)>> :
                     b \in BOOLEAN, q \in BOOLEAN, st \in {"Abs", "%T"} }

PlotMethods == {"integral", "peak"}

NoOutcome == ""

\* the first exception raised in the loop over other_spectra of
\* plot_integral_kinetic (single = FALSE) and plot_integral_single
\* (single = TRUE), NoOutcome if the loop ends
RECURSIVE RamanOthersLoop(_, _, _)
RamanOthersLoop(other_spectra, i, single) ==
    IF i > Len(other_spectra) THEN NoOutcome
    ELSE IF (other_spectra[i].cols = 1) # single THEN "ValueError"
    ELSE IF ~other_spectra[i].hasIntegral THEN "AttributeError"
    ELSE RamanOthersLoop(other_spectra, i + 1, single)

\* what a plot of the integral of a RamanSpectra does: the checks on self,
\* then the loop over other_spectra
RamanPlotOutcome(other_spectra, single) ==
    IF (Len(SpectralData) = 1) # single THEN "ValueError"
    ELSE IF integral = Unset THEN "AttributeError"
    ELSE IF RamanOthersLoop(other_spectra, 1, single) # NoOutcome
         THEN RamanOthersLoop(other_spectra, 1, single)
    ELSE "ok"

plot_integral_kinetic(other_spectra, conversion) ==
    /\ cls = "Raman"
    /\ call' = [op |-> "plot_integral_kinetic", interactive |-> FALSE,
                args |-> <<other_spectra, conversion>>, picked |-> NoPick]
    /\ conv' = ConvStep(FALSE)
    /\ res' = Result(RamanPlotOutcome(other_spectra, FALSE), FALSE, 0, 0, 0)
    /\ UNCHANGED <<cls, RamanShift, Wavenumbers, SpectralData, RawData, TimeStamp,
                   status, integral, peak>>

plot_integral_single(other_spectra) ==
    /\ cls = "Raman"
    /\ call' = [op |-> "plot_integral_single", interactive |-> FALSE,
                args |-> <<other_spectra>>, picked |-> NoPick]
    /\ conv' = ConvStep(FALSE)
    /\ res' = Result(RamanPlotOutcome(other_spectra, TRUE), FALSE, 0, 0, 0)
    /\ UNCHANGED <<cls, RamanShift, Wavenumbers, SpectralData, RawData, TimeStamp,
                   status, integral, peak>>

\* hasattr(self, 'integral') for method 'integral', hasattr(self, 'peak')
\* for method 'peak'
SelfHas(method) == IF method = "integral" THEN integral # Unset ELSE peak # Unset

\* spec.integral / spec.peak can be read
OtherHas(o, method) == IF method = "integral" THEN o.hasIntegral ELSE o.hasPeak

\* the loop over other_spectra of plot_values_single: the hasattr test is
\* made on self, then the status is compared, then spec.integral or
\* spec.peak is read, which raises AttributeError if it is not there
RECURSIVE ValuesOthersLoop(_, _, _)
ValuesOthersLoop(other_spectra, i, method) ==
    IF i > Len(other_spectra) THEN NoOutcome
    ELSE IF ~SelfHas(method) THEN "AttributeError"
    ELSE IF other_spectra[i].status # status THEN "ValueError"
    ELSE IF ~OtherHas(other_spectra[i], method) THEN "AttributeError"
    ELSE ValuesOthersLoop(other_spectra, i + 1, method)

plot_values_single(other_spectra, method) ==
    /\ cls = "IR"
    /\ call' = [op |-> "plot_values_single", interactive |-> FALSE,
                args |-> <<other_spectra, method>>, picked |-> NoPick]
    /\ conv' = ConvStep(FALSE)
    /\ res' = Result(IF method \notin PlotMethods THEN "ValueError"
                     ELSE IF ~SelfHas(method) THEN "AttributeError"
                     ELSE IF ValuesOthersLoop(other_spectra, 1, method) # NoOutcome
                          THEN ValuesOthersLoop(other_spectra, 1, method)
                     ELSE "ok",
                     FALSE, 0, 0, 0)
    /\ UNCHANGED <<cls, RamanShift, Wavenumbers, SpectralData, RawData, TimeStamp,
                   status, integral, peak>>

(***************************************************************************)
(* Specifications                                                          *)
(***************************************************************************)
\* Spec: both classes; unit conversions, baseline, integrate, spec_pos_val
Next ==
    \/ t_to_A
    \/ A_to_t
    \/ \E k \in BlineArgs : RamanBaseline(k[1], k[2], k[3], FALSE, NoPick)
    \/ \E k \in {<<0, 0, 0>>, <<2, 0, 0>>}, p \in BlinePicks :
          RamanBaseline(k[1], k[2], k[3], TRUE, p)
    \/ \E k \in BlineArgs : IRBaseline(k[1], k[2], k[3], FALSE, NoPick)
    \/ \E k \in {<<0, 0, 0>>, <<2, 0, 0>>}, p \in BlinePicks :
          IRBaseline(k[1], k[2], k[3], TRUE, p)
    \/ \E k \in IntegrateArgs : RamanIntegrate(k[1], k[2], FALSE, NoPick)
    \/ \E start \in {1, 6}, p \in BoundPicks : RamanIntegrate(start, 1, TRUE, p)
    \/ \E k \in IntegrateArgs : IRIntegrate(k[1], k[2], FALSE, NoPick)
    \/ \E start \in {1, 6}, p \in BoundPicks : IRIntegrate(start, 1, TRUE, p)
    \/ \E position \in QueryVals : spec_pos_val(position, FALSE, NoPick)
    \/ \E p \in PosPicks : spec_pos_val(0, TRUE, p)

Spec == Init /\ [][Next]_vars

\* SpecIR: an IRSpectra under every method that changes it, normalise_peak
\* included, with fewer argument values per method
NextIR ==
    \/ t_to_A
    \/ A_to_t
    \/ \E k \in {<<0, 0, 0>>, <<0, 0, 2>>, <<0, 91, 0>>} :
          IRBaseline(k[1], k[2], k[3], FALSE, NoPick)
    \/ IRBaseline(0, 0, 0, TRUE, <<0, 0, 2>>)
    \/ \E k \in {<<4, 1>>, <<1, 6>>} : IRIntegrate(k[1], k[2], FALSE, NoPick)
    \/ IRIntegrate(1, 1, TRUE, <<4, 1>>)
    \/ \E position \in {1, 6} : spec_pos_val(position, FALSE, NoPick)
    \/ spec_pos_val(0, TRUE, 1)
    \/ \E peak_wn \in QueryVals \cup {0, 2} : normalise_peak(peak_wn, FALSE, NoPick)
    \/ \E p \in PosPicks : normalise_peak(0, TRUE, p)

InitOfIR == InitIR /\ InitFresh

SpecIR == InitOfIR /\ [][NextIR]_vars

\* SpecAll: both classes under every method that changes them: NextIR for
\* an IRSpectra, NextRaman for a RamanSpectra, normalise and spike_removal
\* included, on the short and on the long abscissa
AreaKeys == { <<1, 4>>, <<4, 1>>, <<-2, 4>>, <<1, 6>>, <<-2, 6>>, NoKeys }

PeakKeys == { <<-2>>, <<0>>, <<1>>, <<4>>, <<6>>, NoKeys }

NextRaman ==
    \/ \E k \in {<<0, 0, 0>>, <<0, 0, 2>>, <<1, 0, 0>>, <<0, 91, 0>>} :
          RamanBaseline(k[1], k[2], k[3], FALSE, NoPick)
    \/ RamanBaseline(0, 0, 0, TRUE, <<0, 0, 2>>)
    \/ \E k \in {<<4, 1>>, <<1, 6>>} : RamanIntegrate(k[1], k[2], FALSE, NoPick)
    \/ \E kw \in AreaKeys : RamanNormalise("area", kw, FALSE, NoPick)
    \/ \E kw \in PeakKeys : RamanNormalise("peak", kw, FALSE, NoPick)
    \/ RamanNormalise("integral", NoKeys, FALSE, NoPick)
    \/ \E p \in BoundPicks : RamanNormalise("area", NoKeys, TRUE, p)
    \/ \E p \in PosPicks : RamanNormalise("peak", NoKeys, TRUE, p)
    \/ spike_removal

InitAll == (InitRaman \/ InitRamanLong \/ InitIR) /\ InitFresh

NextAll == NextIR \/ NextRaman

SpecAll == InitAll /\ [][NextAll]_vars

\* SpecPlot: both classes under the methods that attach a summary, the unit
\* conversions and the three plots
NextPlot ==
    \/ t_to_A
    \/ A_to_t
    \/ RamanIntegrate(4, 1, FALSE, NoPick)
    \/ IRIntegrate(4, 1, FALSE, NoPick)
    \/ spec_pos_val(1, FALSE, NoPick)
    \/ \E o \in RamanOthers, conversion \in BOOLEAN : plot_integral_kinetic(o, conversion)
    \/ \E o \in RamanOthers : plot_integral_single(o)
    \/ \E o \in IROthers, method \in PlotMethods \cup {"area"} :
          plot_values_single(o, method)

SpecPlot == Init /\ [][NextPlot]_vars

(***************************************************************************)
(* Properties                                                              *)
(***************************************************************************)
\* the abscissa of the object
Axis == IF cls = "Raman" THEN RamanShift ELSE Wavenumbers

\* the bounds the last integrate call used
UsedBounds == IntegrateBounds(call.args[1], call.args[2], call.interactive, call.picked)

\* C1: t_to_A called on a spectrum already in Absorbance, and A_to_t called
\* on one already in Transmission, raise an error and leave status and
\* intensity as they were.
C1_FailedConversionKeepsState ==
    [][((call'.op = "t_to_A" /\ status = "Abs")
        \/ (call'.op = "A_to_t" /\ status = "%T"))
       => (res'.outcome = "ValueError"
           /\ status' = status
           /\ SpectralData' = SpectralData)]_vars

C1_Witness ==
    /\ call.op = "t_to_A"
    /\ res.outcome = "ValueError"
    /\ status = "Abs"

\* a transmission sample whose logarithm exists (zero gives +inf)
NonNegative(v) == v = PosInf \/ (IsFinite(v) /\ v >= 0)

\* C2 as stated: two successful unit conversions in a row (A_to_t then
\* t_to_A, or t_to_A then A_to_t) bring intensity and status back to what
\* they were, for every spectrum.
C2_RoundTripAlways ==
    conv.len = 2 => (SpectralData = conv.data /\ status = conv.status)

\* C2 amended: the round trip restores intensity and status when it starts
\* in Absorbance, and when it starts in Transmission with no negative sample.
C2_RoundTripNonNegative ==
    (conv.len = 2
     /\ (conv.status = "%T" => \A i \in 1..Len(conv.data) : NonNegative(conv.data[i])))
    => (SpectralData = conv.data /\ status = conv.status)

C2_Witness ==
    /\ conv.len = 2
    /\ conv.status = "%T"
    /\ \A i \in 1..Len(conv.data) : IsFinite(conv.data[i]) /\ conv.data[i] > 0
    /\ SpectralData = conv.data
    /\ status = "%T"

\* C3: status is always '%T' or 'Abs'; only t_to_A and A_to_t change it, and
\* every successful call of either changes it to the other value.
C3_UnitState ==
    /\ [](cls = "IR" => status \in {"%T", "Abs"})
    /\ [][/\ status' # status
             => (call'.op \in Conversions /\ res'.outcome = "ok")
          /\ (call'.op \in Conversions /\ res'.outcome = "ok")
             => (status' # status /\ status' \in {"%T", "Abs"})
          /\ (call'.op = "t_to_A" /\ res'.outcome = "ok") => status' = "Abs"
          /\ (call'.op = "A_to_t" /\ res'.outcome = "ok") => status' = "%T"]_vars

C3_Witness ==
    /\ call.op = "A_to_t"
    /\ res.outcome = "ok"
    /\ status = "%T"
    /\ conv.len = 2

\* C4: baseline (either class) called with coarsness outside [0,1] or
\* |angle| > 90 raises before anything else happens: no baseline is
\* computed, the picker is not invoked, intensity is unchanged.
C4_OutOfBoundsBaseline ==
    [][(call'.op = "baseline"
        /\ (call'.args[1] < 0 \/ call'.args[1] > 1
            \/ call'.args[2] > 90 \/ call'.args[2] < -90))
       => (res'.outcome = "ValueError"
           /\ ~res'.picker
           /\ res'.blines = 0
           /\ SpectralData' = SpectralData)]_vars

C4_Witness ==
    /\ call.op = "baseline"
    /\ call.interactive
    /\ call.args[1] > 1
    /\ res.outcome = "ValueError"
    /\ ~res.picker

\* the last call was baseline(0, 0, 0, interactive=False)
ZeroBaselineCall(c) ==
    /\ c.op = "baseline"
    /\ ~c.interactive
    /\ c.args = <<0, 0, 0>>

\* C5 as stated: baseline(0, 0, 0, interactive=False) prints a warning and
\* returns normally, intensity unchanged, in both classes.
C5_ZeroBaselineWarns ==
    [][ZeroBaselineCall(call')
       => (res'.outcome = "warned" /\ SpectralData' = SpectralData)]_vars

\* C5 amended: baseline(0, 0, 0, interactive=False) never changes intensity;
\* RamanSpectra.baseline prints a warning and returns normally, while
\* IRSpectra.baseline on a spectrum in Absorbance raises ValueError.
C5_ZeroBaselineRejected ==
    [][ZeroBaselineCall(call')
       => (/\ SpectralData' = SpectralData
           /\ res'.blines = 0
           /\ cls = "Raman" => res'.outcome = "warned"
           /\ (cls = "IR" /\ status = "Abs") => res'.outcome = "ValueError")]_vars

C5_Witness ==
    /\ ZeroBaselineCall(call)
    /\ cls = "IR"
    /\ status = "Abs"
    /\ res.outcome = "ValueError"

\* C6: IRSpectra.baseline with valid parameters on a spectrum in
\* Transmission raises an error to the caller; intensity is unchanged.
C6_TransmissionBaselineRaises ==
    [][(cls = "IR" /\ call'.op = "baseline" /\ status = "%T"
        /\ ~BlineOutOfBounds(call'.args[1], call'.args[2]))
       => (res'.outcome = "ValueError" /\ SpectralData' = SpectralData)]_vars

\* C7: integrate (either class) with a bound outside
\* [min(abscissa), max(abscissa)] raises and leaves the summary alone: unset
\* stays unset, an earlier value stays.
C7_OutOfBoundsIntegrate ==
    [][(call'.op = "integrate"
        /\ LET b == IF call'.interactive THEN call'.picked
                    ELSE <<call'.args[1], call'.args[2]>>
           IN \E k \in 1..2 : b[k] < SeqMin(Axis) \/ b[k] > SeqMax(Axis))
       => (res'.outcome = "ValueError" /\ integral' = integral)]_vars

C7_Witness ==
    /\ call.op = "integrate"
    /\ ~call.interactive
    /\ call.args[2] > SeqMax(Axis)
    /\ res.outcome = "ValueError"
    /\ integral # Unset

\* the summary integrate attaches for resolved indices pos
SummaryFor(pos) ==
    IF cls = "Raman"
    THEN [c \in 1..Len(SpectralData) |-> integrate_area(SpectralData[c], pos[1], pos[2])]
    ELSE integrate_area(SpectralData, pos[1], pos[2])

\* C8: a successful non-interactive integrate(start=a, end=b) resolves to the
\* index pair, and attaches the summary, that integrate(start=b, end=a)
\* resolves to and attaches.
C8_IntegrateSymmetric ==
    [][(call'.op = "integrate" /\ ~call'.interactive /\ res'.outcome = "ok")
       => LET swapped == ResolveBounds(Axis,
                            IntegrateBounds(call'.args[2], call'.args[1], FALSE, NoPick))
          IN /\ <<res'.start_pos, res'.end_pos>> = swapped
             /\ integral' = <<SummaryFor(swapped)>>]_vars

C8_Witness ==
    /\ call.op = "integrate"
    /\ ~call.interactive
    /\ call.args[1] > call.args[2]
    /\ res.outcome = "ok"
    /\ res.start_pos # res.end_pos
    /\ integral # Unset

\* i is the lowest index whose sample is nearest to v
IsNearest(axis, v, i) ==
    /\ i \in 1..Len(axis)
    /\ \A j \in 1..Len(axis) : Abs(axis[i] - v) <= Abs(axis[j] - v)
    /\ \A j \in 1..(i - 1) : Abs(axis[j] - v) > Abs(axis[i] - v)

\* values resolved against the abscissa
Probes == -2..6

\* C9: the index used for a value v minimises |abscissa[i] - v|, ties going
\* to the lowest index; resolving abscissa[i] gives i.
C9_NearestIndex ==
    /\ \A v \in Probes : IsNearest(Axis, v, NearestIdx(Axis, v))
    /\ \A i \in 1..Len(Axis) : NearestIdx(Axis, Axis[i]) = i
    /\ (call.op = "integrate" /\ res.outcome = "ok")
       => (/\ IsNearest(Axis, UsedBounds[1], res.start_pos)
           /\ IsNearest(Axis, UsedBounds[2], res.end_pos))
    /\ (call.op = "spec_pos_val" /\ ~call.interactive /\ res.outcome = "ok")
       => IsNearest(Axis, call.args[1], res.start_pos)

C9_Witness ==
    /\ call.op = "integrate"
    /\ res.outcome = "ok"
    /\ \E j \in 1..Len(Axis) :
          /\ j > res.start_pos
          /\ Abs(Axis[j] - UsedBounds[1]) = Abs(Axis[res.start_pos] - UsedBounds[1])

\* C10: a RamanSpectra summary has one entry per column (per timestamp),
\* however many integrate calls were made, and after a successful integrate
\* entry i is the integral of column i over the resolved indices.
C10_SummaryPerColumn ==
    (cls = "Raman" /\ integral # Unset)
    => (/\ Len(integral[1]) = Len(SpectralData)
        /\ Len(integral[1]) = Len(TimeStamp)
        /\ (call.op = "integrate" /\ res.outcome = "ok")
           => \A i \in 1..Len(SpectralData) :
                 integral[1][i] =
                    integrate_area(SpectralData[i], res.start_pos, res.end_pos))

C10_Witness ==
    /\ cls = "Raman"
    /\ call.op = "integrate"
    /\ res.outcome = "ok"
    /\ Len(SpectralData) = 2
    /\ Len(integral[1]) = 2
    /\ integral[1][1] # integral[1][2]


\* C19: on an IRSpectra in Transmission ('%T'), integrate, spec_pos_val and
\* normalise_peak each raise ValueError whatever their arguments, in range
\* or not, without the picker being invoked when interactive, and leave
\* SpectralData, status, integral and peak as they were.
BandOps == {"integrate", "spec_pos_val", "normalise_peak"}

C19_TransmissionGatesBandOps ==
    [][(cls = "IR" /\ status = "%T" /\ call'.op \in BandOps)
       => /\ res'.outcome = "ValueError"
          /\ ~res'.picker
          /\ SpectralData' = SpectralData
          /\ status' = status
          /\ integral' = integral
          /\ peak' = peak]_vars

\* an interactive integrate raised in Transmission on a spectrum that
\* carries an integral from its time in Absorbance
C19_Witness ==
    /\ cls = "IR" /\ status = "%T"
    /\ call.op = "integrate" /\ call.interactive
    /\ res.outcome = "ValueError"
    /\ integral # Unset

\* C18: a RamanSpectra.baseline call that goes through replaces every column
\* c by column c minus bline(RamanShift, column c, coarsness, angle, offset),
\* computed from the values column c had before the call and the same three
\* scalars for every column; no column's result depends on another column.
UsedBline(k) ==
    IF k.interactive THEN <<k.picked[2], k.picked[1], k.picked[3]>> ELSE k.args

C18_BaselinePerColumn ==
    [][(cls = "Raman" /\ call'.op = "baseline" /\ res'.outcome = "ok")
       => LET u == UsedBline(call')
          IN /\ Len(SpectralData') = Len(SpectralData)
             /\ \A c \in 1..Len(SpectralData) :
                   SpectralData'[c] =
                     ColSub(SpectralData[c],
                            bline(RamanShift, SpectralData[c], u[1], u[2], u[3]))]_vars

\* a two-column RamanSpectra after a baseline whose value depends on the
\* column it is computed for (coarsness 1)
C18_Witness ==
    /\ cls = "Raman" /\ Len(SpectralData) = 2
    /\ call.op = "baseline" /\ call.args[1] = 1
    /\ res.outcome = "ok" /\ res.blines = 2

\* C17: baseline applies its range check to the values it uses: an
\* interactive call (on a RamanSpectra, or an IRSpectra in Absorbance) raises
\* ValueError exactly when the values returned by the picker are out of
\* range, whatever the keyword arguments it does not use.
C17_RangeCheckOnUsedValues ==
    [][(call'.op = "baseline" /\ call'.interactive
        /\ (cls = "IR" => status = "Abs"))
       => LET u == UsedBline(call')
          IN (res'.outcome = "ValueError") <=> BlineOutOfBounds(u[1], u[2])]_vars

\* C16: spec_pos_val stores the sample at the index nearest to the requested
\* position whether the position is an argument or comes from the picker:
\* an interactive call whose picker returns a position p on the abscissa
\* leaves peak = SpectralData[nearest index to p], as position = p would.
C16_PickedPositionStoresSample ==
    [][(call'.op = "spec_pos_val" /\ call'.interactive /\ status = "Abs"
        /\ InBounds(Wavenumbers, call'.picked))
       => peak' = <<SpectralData[NearestIdx(Wavenumbers, call'.picked)]>>]_vars

\* C14: a non-interactive RamanSpectra.normalise(method = 'area', start, end)
\* checks both bounds: if start or end lies outside
\* [min(RamanShift), max(RamanShift)] the call raises ValueError and
\* SpectralData is not changed.
C14_AreaBoundsBothChecked ==
    [][(call'.op = "normalise" /\ ~call'.interactive
        /\ call'.args[1] = "area" /\ Len(call'.args) = 3
        /\ (~InBounds(RamanShift, call'.args[2])
            \/ ~InBounds(RamanShift, call'.args[3])))
       => /\ res'.outcome = "ValueError"
          /\ SpectralData' = SpectralData]_vars

\* C15: a peak position p given as an argument (not picked) to
\* RamanSpectra.normalise(method = 'peak'), IRSpectra.normalise_peak or
\* IRSpectra.spec_pos_val (the IRSpectra in Absorbance) is rejected with
\* ValueError exactly when p is outside the closed interval
\* [min(abscissa), max(abscissa)]; min, max and 0.0 inside it are accepted.
PeakCall(k) ==
    /\ ~k.interactive
    /\ \/ k.op \in {"normalise_peak", "spec_pos_val"}
       \/ (k.op = "normalise" /\ Len(k.args) = 2 /\ k.args[1] = "peak")

PeakArg(k) == IF k.op = "normalise" THEN k.args[2] ELSE k.args[1]

C15_PeakClosedInterval ==
    [][(PeakCall(call') /\ (cls = "IR" => status = "Abs"))
       => ((res'.outcome = "ValueError") <=> ~InBounds(Axis, PeakArg(call')))]_vars

\* C12: no method that rewrites SpectralData (baseline, normalise,
\* normalise_peak, spike_removal, t_to_A, A_to_t) changes RawData: RawData
\* keeps the value it was given at load, also when SpectralData is written
\* in place, since the two are never the same array.
MutatingOps == {"baseline", "normalise", "normalise_peak", "spike_removal",
                "t_to_A", "A_to_t"}

C12_RawDataKept ==
    [][call'.op \in MutatingOps => RawData' = RawData]_vars

\* spike_removal has rewritten the columns of a RamanSpectra in place and
\* RawData is still the array that was loaded
C12_Witness ==
    /\ call.op = "spike_removal" /\ res.outcome = "ok"
    /\ \E l \in LongLoads : RawData = l.raw
    /\ SpectralData # RawData

\* C13: in every reachable state the abscissa is as long as a column of
\* SpectralData (as SpectralData itself for an IRSpectra), and a
\* RamanSpectra has as many columns as TimeStamp has entries.
C13_Shapes ==
    IF cls = "Raman"
    THEN /\ Len(SpectralData) = Len(TimeStamp)
         /\ \A c \in 1..Len(SpectralData) : Len(SpectralData[c]) = Len(RamanShift)
    ELSE Len(SpectralData) = Len(Wavenumbers)

\* a two-column RamanSpectra whose columns were rewritten by normalise
C13_Witness ==
    /\ cls = "Raman" /\ Len(TimeStamp) = 2
    /\ call.op = "normalise" /\ res.outcome = "ok"
    /\ SpectralData # RawData

\* C20: integral and peak change only through a successful integrate and a
\* successful spec_pos_val: baseline, normalise, normalise_peak,
\* spike_removal, t_to_A and A_to_t leave both exactly as they were, even
\* though they change the samples the summary was computed from.
C20_SummaryKeptByMutations ==
    [][/\ call'.op \in MutatingOps => (integral' = integral /\ peak' = peak)
       /\ integral' # integral => (call'.op = "integrate" /\ res'.outcome = "ok")
       /\ peak' # peak => (call'.op = "spec_pos_val" /\ res'.outcome = "ok")]_vars

\* a RamanSpectra that was integrated and then smoothed: the integral is
\* still attached
C20_Witness ==
    /\ cls = "Raman" /\ integral # Unset
    /\ call.op = "spike_removal" /\ res.outcome = "ok"
    /\ SpectralData # RawData

\* C11: a plot of a summary (plot_integral_kinetic, plot_integral_single,
\* plot_values_single with a supported method) raises AttributeError when
\* the spectrum itself, or a spectrum of other_spectra, does not have the
\* summary asked for; the spectra have the number of columns the plot is
\* made for.
PlotOps == {"plot_integral_kinetic", "plot_integral_single", "plot_values_single"}

Requested(k) == IF k.op = "plot_values_single" THEN k.args[2] ELSE "integral"

RightColumns(k) ==
    \/ k.op = "plot_values_single"
    \/ /\ k.op = "plot_integral_kinetic"
       /\ Len(SpectralData) > 1
       /\ \A i \in 1..Len(k.args[1]) : k.args[1][i].cols > 1
    \/ /\ k.op = "plot_integral_single"
       /\ Len(SpectralData) = 1
       /\ \A i \in 1..Len(k.args[1]) : k.args[1][i].cols = 1

C11_MissingSummaryRaises ==
    [][(/\ call'.op \in PlotOps
        /\ Requested(call') \in PlotMethods
        /\ RightColumns(call')
        /\ \/ ~SelfHas(Requested(call'))
           \/ \E i \in 1..Len(call'.args[1]) :
                 ~OtherHas(call'.args[1][i], Requested(call')))
       => res'.outcome = "AttributeError"]_vars

=============================================================================
